---- MODULE Spec2Model ----
(***************************************************************************)
(* A model of deno-postcss's Input (source identity, BOM handling, the     *)
(* process-wide id counter, origin() and error()) and of terminal          *)
(* highlighting (getTokenType and terminalHighlight over the token stream).*)
(*                                                                         *)
(* Strings are sequences of one-character strings.  undefined, null and    *)
(* the empty string are all the empty sequence: the code only ever tests   *)
(* these values for truthiness.  An optional object is a sequence of zero  *)
(* or one record.  Positions in a string are 0-based, as in the code.      *)
(***************************************************************************)
EXTENDS Integers, Sequences, FiniteSets, TLC

VARIABLES
  sequence,    \* the module-level counter `sequence`
  input,       \* the Input constructed last: <<>> or <<record>>
  anon,        \* ids given to the Inputs constructed without a file, in order
  css,         \* the css argument of the last construction
  ret,         \* what the last call returned (or that it threw)
  pc,          \* terminalHighlight's position: "idle", "loop" or "done"
  processor,   \* terminalHighlight's token stream
  atClassify,  \* the token stream as it was handed to getTokenType
  token,       \* the token of the current loop iteration: <<>> or <<token>>
  type,        \* what getTokenType returned for it
  delivered,   \* the tokens the loop has taken, in order
  result       \* terminalHighlight's `result`

vars == <<sequence, input, anon, css, ret, pc, processor, atClassify, token,
          type, delivered, result>>

hlVars == <<pc, processor, atClassify, token, type, delivered, result>>

\* ------------------------------------------------------------------ bounds

\* largest value the counter is driven to
MaxSequence == 3
\* line and column arguments of origin() and error() range over 1..Max
MaxLine == 2
MaxColumn == 5
\* terminalHighlight is run on every text of at most MaxLen characters
MaxLen == 4

\* ------------------------------------------------------------ strings

Undefined == <<>>

Truthy(s) == s # <<>>

Min(a, b) == IF a < b THEN a ELSE b

\* String.prototype.slice(a, b) for 0 <= a
Slice(s, a, b) == SubSeq(s, a + 1, Min(b, Len(s)))

\* String.prototype.indexOf(ch, from): -1 when there is none
IndexOf(s, ch, from) ==
  LET hits == {i \in from..(Len(s) - 1) : s[i + 1] = ch}
  IN IF hits = {} THEN -1 ELSE CHOOSE i \in hits : \A j \in hits : i <= j

BOM_FEFF == "\\uFEFF"
BOM_FFFE == "\\uFFFE"

\* ------------------------------------------------------------ paths

\* the characters \w matches: [A-Za-z0-9_]
WordChars ==
  {"a", "b", "c", "d", "e", "f", "g", "h", "i", "j", "k", "l", "m",
   "n", "o", "p", "q", "r", "s", "t", "u", "v", "w", "x", "y", "z",
   "A", "B", "C", "D", "E", "F", "G", "H", "I", "J", "K", "L", "M",
   "N", "O", "P", "Q", "R", "S", "T", "U", "V", "W", "X", "Y", "Z",
   "0", "1", "2", "3", "4", "5", "6", "7", "8", "9",
   "_"}

\* /^\w+:\/\//.test(s)
IsUrl(s) ==
  \E n \in 1..Len(s) :
    /\ \A i \in 1..n : s[i] \in WordChars
    /\ Len(s) >= n + 3
    /\ s[n + 1] = ":" /\ s[n + 2] = "/" /\ s[n + 3] = "/"

\* path.isAbsolute (posix)
IsAbsolute(p) == Len(p) > 0 /\ p[1] = "/"

\* the working directory of the process
Cwd == <<"/", "w">>

PathJoin(a, b) == a \o <<"/">> \o b

\* path.resolve(p)
PathResolve1(p) ==
  IF IsAbsolute(p) THEN p
  ELSE IF p = <<>> \/ p = <<".">> THEN Cwd
  ELSE PathJoin(Cwd, p)

\* path.resolve(root, p)
PathResolve2(root, p) ==
  IF IsAbsolute(p) THEN p ELSE PathJoin(PathResolve1(root), p)

\* ------------------------------------------------- the previous source map

Sass == <<"a", ".", "s", "a", "s", "s">>
SassUrl == <<"h", ":", "/", "/", "s">>

\* one mapping of a decoded map: generated (gl, gc) -> original
Mapping(gl, gc, src, l, c) ==
  [generatedLine |-> gl, generatedColumn |-> gc, source |-> src,
   line |-> l, column |-> c]

\* generated (2,5) -> a.sass (10,3)
MapSass ==
  [file |-> Undefined, sourceRoot |-> Undefined,
   mappings |-> {Mapping(2, 5, Sass, 10, 3)},
   sourcesContent |-> {}]

\* a map that declares its file and root and carries the original text
MapFull ==
  [file |-> <<"o">>, sourceRoot |-> <<"/", "r">>,
   mappings |-> {Mapping(2, 5, Sass, 10, 3), Mapping(1, 1, SassUrl, 1, 1)},
   sourcesContent |-> {<<Sass, <<"x">>>>, <<SassUrl, <<>>>>}]

\* a map that declares a URL as its file and maps nothing
MapEmpty ==
  [file |-> <<"h", ":", "/", "/", "o">>, sourceRoot |-> <<"r">>,
   mappings |-> {},
   sourcesContent |-> {}]

Consumers == {MapSass, MapFull, MapEmpty}

\* consumer.originalPositionFor({line, column}); source is null without a mapping
OriginalPositionFor(consumer, line, column) ==
  LET hits == {m \in consumer.mappings :
                 m.generatedLine = line /\ m.generatedColumn = column}
  IN IF hits = {}
     THEN [source |-> Undefined, line |-> 0, column |-> 0]
     ELSE LET m == CHOOSE m \in hits : TRUE
          IN [source |-> m.source, line |-> m.line, column |-> m.column]

\* consumer.sourceContentFor(source); null when the map has no text for it
SourceContentFor(consumer, source) ==
  LET hits == {p \in consumer.sourcesContent : p[1] = source}
  IN IF hits = {} THEN Undefined ELSE (CHOOSE p \in hits : TRUE)[2]

\* new PreviousMap(css, opts): text is set when a previous map was found
PreviousMap(text, opts) ==
  IF opts.prev = <<>>
  THEN [text |-> Undefined, consumer |-> <<>>, file |-> Undefined]
  ELSE [text |-> <<"{", "}">>, consumer |-> opts.prev, file |-> Undefined]

\* ------------------------------------------------------------ Input

\* this.css[0] is one of the two marker codepoints
HasBOM(text) == Len(text) > 0 /\ (text[1] = BOM_FEFF \/ text[1] = BOM_FFFE)

RECURSIVE StripEveryBOM(_)
StripEveryBOM(text) ==
  IF HasBOM(text) THEN StripEveryBOM(Tail(text)) ELSE text

\* this.css after the BOM check
StripBOM(text) == IF HasBOM(text) THEN Slice(text, 1, Len(text)) ELSE text

\* this.file after the `from` option was looked at
FileFromOpts(opts) ==
  IF Truthy(opts.from)
  THEN IF IsUrl(opts.from) \/ IsAbsolute(opts.from)
       THEN opts.from
       ELSE PathResolve1(opts.from)
  ELSE Undefined

\* Input.mapResolve, for an Input whose map has this consumer
mapResolve(consumer, file) ==
  IF IsUrl(file) THEN file
  ELSE PathResolve2(IF Truthy(consumer.sourceRoot) THEN consumer.sourceRoot
                    ELSE <<".">>, file)

\* this.file after the map was linked
FileAfterMap(file, map) ==
  IF Truthy(map.text) /\ ~Truthy(file) /\ Truthy(map.consumer[1].file)
  THEN mapResolve(map.consumer[1], map.consumer[1].file)
  ELSE file

NeedsIdAlways(file) == TRUE

\* if (!this.file)
NeedsId(file) == ~Truthy(file)

SequenceStuck(seq) == seq

\* sequence += 1
NextSequence(seq) == seq + 1

IdOfPrevious(seq) == <<"<input css " \o ToString(seq - 1) \o ">">>

\* "<input css " + sequence + ">"
IdOf(seq) == <<"<input css " \o ToString(seq) \o ">">>

\* get from()
from(inp) == IF Truthy(inp.file) THEN inp.file ELSE inp.id

\* new Input(css, opts) with the counter at seq: the Input and the counter after
NewInput(text, opts, seq) ==
  LET stored == StripBOM(text)
      map == PreviousMap(stored, opts)
      file == FileAfterMap(FileFromOpts(opts), map)
      seq2 == IF NeedsId(file) THEN NextSequence(seq) ELSE seq
      id == IF NeedsId(file) THEN IdOf(seq2) ELSE Undefined
      obj == [css |-> stored, hasBOM |-> HasBOM(text), file |-> file, id |-> id]
  IN [input |-> [css |-> obj.css, hasBOM |-> obj.hasBOM, file |-> obj.file,
                 id |-> obj.id,
                 map |-> IF Truthy(map.text)
                         THEN <<[map EXCEPT !.file = from(obj)]>>
                         ELSE <<>>],
      sequence |-> seq2]

AttachSourceAlways(res, source) ==
  [file |-> res.file, line |-> res.line, column |-> res.column, source |-> source]

\* if (source) result.source = source
AttachSource(res, source) ==
  IF Truthy(source)
  THEN [file |-> res.file, line |-> res.line, column |-> res.column,
        source |-> source]
  ELSE res

\* Input.origin: value is <<>> for false, and queries counts the calls made
\* on the map consumer
origin(inp, line, column) ==
  IF inp.map = <<>> THEN [value |-> <<>>, queries |-> 0]
  ELSE LET consumer == inp.map[1].consumer[1]
           pos == OriginalPositionFor(consumer, line, column)
       IN IF ~Truthy(pos.source) THEN [value |-> <<>>, queries |-> 1]
          ELSE [value |-> <<AttachSource(
                              [file |-> mapResolve(consumer, pos.source),
                               line |-> pos.line, column |-> pos.column],
                              SourceContentFor(consumer, pos.source))>>,
                queries |-> 2]

\* new CssSyntaxError(message, line, column, source, file, plugin)
CssSyntaxError(message, line, column, source, file, plugin) ==
  [message |-> message, line |-> line, column |-> column, source |-> source,
   file |-> file, plugin |-> plugin]

GeneratedFromOrigin(inp, line, column) ==
  LET org == origin(inp, line, column).value
      l == IF org # <<>> THEN org[1].line ELSE line
      c == IF org # <<>> THEN org[1].column ELSE column
  IN IF Truthy(inp.file)
     THEN [line |-> l, column |-> c, source |-> inp.css, file |-> inp.file]
     ELSE [line |-> l, column |-> c, source |-> inp.css]

\* result.input = { line, column, source: this.css }, and file when there is one
Generated(inp, line, column) ==
  IF Truthy(inp.file)
  THEN [line |-> line, column |-> column, source |-> inp.css, file |-> inp.file]
  ELSE [line |-> line, column |-> column, source |-> inp.css]

\* Input.error
error(inp, message, line, column, plugin) ==
  LET org == origin(inp, line, column).value
      res == IF org # <<>>
             THEN CssSyntaxError(message, org[1].line, org[1].column,
                                 IF "source" \in DOMAIN org[1]
                                 THEN org[1].source ELSE Undefined,
                                 org[1].file, plugin)
             ELSE CssSyntaxError(message, line, column, inp.css, inp.file, plugin)
  IN [message |-> res.message, line |-> res.line, column |-> res.column,
      source |-> res.source, file |-> res.file, plugin |-> res.plugin,
      input |-> Generated(inp, line, column)]

\* ------------------------------------------------------- inputs of the calls

\* texts given to new Input: with and without a marker, and with two
CssSamples ==
  {<<>>, <<"a">>, <<BOM_FEFF, "a">>, <<BOM_FFFE, BOM_FEFF>>}

\* opts.from: omitted, two URLs, an absolute path, a relative path
Froms ==
  {Undefined, <<"h", ":", "/", "/", "c">>, <<"H", "1", "_", "i", ":", "/", "/", "c">>,
   <<"/", "c">>, <<"c">>}

\* the previous map the options lead to: none, or a decoded one
Prevs == {<<>>} \cup {<<c>> : c \in Consumers}

Opts == [from : Froms, prev : Prevs]

Lines == 1..MaxLine
Columns == 1..MaxColumn
Plugins == {Undefined, <<"p">>}

\* ------------------------------------------------------------ actions

\* the state of a fresh process in which `text` is the css about to be passed
Start(text) ==
  /\ sequence = 0
  /\ input = <<>>
  /\ anon = <<>>
  /\ css = text
  /\ ret = [kind |-> "none"]
  /\ pc = "idle"
  /\ processor = [css |-> <<>>, pos |-> 0, returned |-> <<>>]
  /\ atClassify = [css |-> <<>>, pos |-> 0, returned |-> <<>>]
  /\ token = <<>>
  /\ type = "none"
  /\ delivered = <<>>
  /\ result = <<>>

Init == Start(<<>>)

\* the state change of a successful new Input(text, opts)
Constructed(text, opts) ==
  LET made == NewInput(text, opts, sequence)
  IN /\ made.sequence <= MaxSequence
     /\ sequence' = made.sequence
     /\ input' = <<made.input>>
     /\ anon' = IF Truthy(made.input.id) THEN Append(anon, made.input.id) ELSE anon
     /\ css' = text

\* new Input(css, opts)
Construct ==
  \E text \in CssSamples, opts \in Opts :
    /\ pc = "idle"
    /\ Constructed(text, opts)
    /\ ret' = [kind |-> "Input"]
    /\ UNCHANGED hlVars

\* new Input(null): throws before anything is stored or counted
ConstructNull ==
  /\ pc = "idle"
  /\ ret' = [kind |-> "throw"]
  /\ UNCHANGED <<sequence, input, anon, css>>
  /\ UNCHANGED hlVars

\* input.origin(line, column)
Origin ==
  \E line \in Lines, column \in Columns :
    /\ pc = "idle"
    /\ input # <<>>
    /\ LET r == origin(input[1], line, column)
       IN ret' = [kind |-> "origin", line |-> line, column |-> column,
                  value |-> r.value, queries |-> r.queries]
    /\ UNCHANGED <<sequence, input, anon, css>>
    /\ UNCHANGED hlVars

\* input.error(message, line, column, {plugin})
Error ==
  \E line \in Lines, column \in Columns, plugin \in Plugins :
    /\ pc = "idle"
    /\ input # <<>>
    /\ ret' = [kind |-> "error", line |-> line, column |-> column,
               value |-> error(input[1], <<"m">>, line, column, plugin)]
    /\ UNCHANGED <<sequence, input, anon, css>>
    /\ UNCHANGED hlVars

Next == Construct \/ ConstructNull \/ Origin \/ Error

Spec == Init /\ [][Next]_vars

\* ------------------------------------------------------ the token stream

Whitespace == {" ", "\n", "\r", "\t", "\f"}

\* the characters that are a token of their own, typed by themselves
ControlChars == {"[", "]", "{", "}", ":", ";", ")"}

\* the characters of RE_WORD_END; a comment opener ends a word too
WordEndChars ==
  Whitespace \cup {"(", ")", "{", "}", ":", ";", "@", "!", "'", "\"", "\\",
                   "]", "[", "#"}

\* the characters of RE_AT_END
AtEndChars ==
  Whitespace \cup {"{", "}", "(", ")", "'", "\"", "\\", ";", "/", "[", "]", "#"}

\* the characters a `.` of a regular expression does not match
LineTerminators == {"\n", "\r"}

\* RE_BAD_BRACKET: any character followed by one of \ / ( " ' or a line feed
BadBracket(content) ==
  \E i \in 1..(Len(content) - 1) :
    /\ content[i] \notin LineTerminators
    /\ content[i + 1] \in {"\\", "/", "(", "\"", "'", "\n"}

\* the first position >= start whose character is in (or, with inside
\* FALSE, not in) chars; Len(s) when there is none
Scan(s, start, chars, inside) ==
  LET hits == {i \in start..(Len(s) - 1) : (s[i + 1] \in chars) = inside}
  IN IF hits = {} THEN Len(s) ELSE CHOOSE i \in hits : \A j \in hits : i <= j

\* the first position >= start where a word ends; Len(s) when there is none
WordEnd(s, start) ==
  LET hits == {i \in start..(Len(s) - 1) :
                 \/ s[i + 1] \in WordEndChars
                 \/ s[i + 1] = "/" /\ i + 2 <= Len(s) /\ s[i + 2] = "*"}
  IN IF hits = {} THEN Len(s) ELSE CHOOSE i \in hits : \A j \in hits : i <= j

\* css.indexOf("*/", start): -1 when there is none
IndexOfCommentEnd(s, start) ==
  LET hits == {i \in start..(Len(s) - 2) : s[i + 1] = "*" /\ s[i + 2] = "/"}
  IN IF hits = {} THEN -1 ELSE CHOOSE i \in hits : \A j \in hits : i <= j

Tok(t, value, pos) == [token |-> <<t, value>>, pos |-> pos]

\* the token that starts at pos (pos < Len(s)) and the position after it,
\* with ignoreErrors set
Lex(s, pos) ==
  LET code == s[pos + 1]
  IN IF code \in Whitespace
     THEN LET next == Scan(s, pos + 1, Whitespace, FALSE)
          IN Tok("space", Slice(s, pos, next), next)
     ELSE IF code \in ControlChars
     THEN Tok(code, <<code>>, pos + 1)
     ELSE IF code = "("
     THEN LET next == IndexOf(s, ")", pos + 1)
              content == Slice(s, pos, next + 1)
          IN IF next = -1 \/ BadBracket(content)
             THEN Tok("(", <<"(">>, pos + 1)
             ELSE Tok("brackets", content, next + 1)
     ELSE IF code \in {"'", "\""}
     THEN LET found == IndexOf(s, code, pos + 1)
              next == IF found = -1 THEN pos + 1 ELSE found
          IN Tok("string", Slice(s, pos, next + 1), next + 1)
     ELSE IF code = "@"
     THEN LET next == Scan(s, pos + 1, AtEndChars, TRUE)
          IN Tok("at-word", Slice(s, pos, next), next)
     ELSE IF code = "/" /\ pos + 2 <= Len(s) /\ s[pos + 2] = "*"
     THEN LET found == IndexOfCommentEnd(s, pos + 2)
              next == IF found = -1 THEN Len(s) ELSE found + 1
          IN Tok("comment", Slice(s, pos, next + 1), next + 1)
     ELSE LET next == WordEnd(s, pos + 1)
          IN Tok("word", Slice(s, pos, next), next)

\* tokenizer(input, { ignoreErrors: true })
tokenizer(inp) == [css |-> inp.css, pos |-> 0, returned |-> <<>>]

\* processor.endOfFile()
endOfFile(p) == p.returned = <<>> /\ p.pos >= Len(p.css)

\* processor.nextToken(), called when not at the end: the token and the stream after
nextToken(p) ==
  IF p.returned # <<>>
  THEN [token |-> p.returned[Len(p.returned)],
        processor |-> [p EXCEPT !.returned = SubSeq(p.returned, 1, Len(p.returned) - 1)]]
  ELSE LET l == Lex(p.css, p.pos)
       IN [token |-> l.token, processor |-> [p EXCEPT !.pos = l.pos]]

\* processor.back(token)
back(p, tok) == [p EXCEPT !.returned = Append(p.returned, tok)]

\* the tokens nextToken() delivers from here to the end of the stream
RECURSIVE Drain(_)
Drain(p) ==
  IF endOfFile(p) THEN <<>>
  ELSE LET n == nextToken(p) IN <<n.token>> \o Drain(n.processor)

\* ------------------------------------------------------ terminal-highlight

\* HIGHLIGHT_THEME[type]: the colour, "none" when the table has no entry
HIGHLIGHT_THEME(t) ==
  IF t \in {"brackets", "at-word", "call", "(", ")"} THEN "cyan"
  ELSE IF t = "comment" THEN "gray"
  ELSE IF t = "string" THEN "green"
  ELSE IF t \in {"class", "{", "}", "[", "]", ":", ";"} THEN "yellow"
  ELSE IF t = "hash" THEN "magenta"
  ELSE "none"

Colors == {"cyan", "gray", "green", "yellow", "magenta"}

\* the control sequences that switch a colour on, and the one that ends it
Open(color) == "ESC[" \o color
Close == "ESC[close"
ControlSequences == {Open(c) : c \in Colors} \cup {Close}

\* chalk's color(text): the empty string stays empty
Paint(color, text) ==
  IF text = <<>> THEN <<>> ELSE <<Open(color)>> \o text \o <<Close>>

\* value.split(/\r?\n/): the pieces, in order
RECURSIVE SplitLines(_)
SplitLines(value) ==
  LET lf == IndexOf(value, "\n", 0)
  IN IF lf = -1 THEN <<value>>
     ELSE LET crlf == lf > 0 /\ value[lf] = "\r"
          IN <<Slice(value, 0, IF crlf THEN lf - 1 ELSE lf)>>
             \o SplitLines(Slice(value, lf + 1, Len(value)))

\* pieces.map(color).join("\n")
RECURSIVE PaintJoin(_, _)
PaintJoin(color, pieces) ==
  IF Len(pieces) = 1 THEN Paint(color, pieces[1])
  ELSE Paint(color, pieces[1]) \o <<"\n">> \o PaintJoin(color, Tail(pieces))

\* what one loop iteration adds to result for a token value in this colour
Rendered(color, value) ==
  IF color # "none" THEN PaintJoin(color, SplitLines(value)) ELSE value

PeekNoBack(p) ==
  LET n == nextToken(p) IN [next |-> n.token, processor |-> n.processor]

\* let next = processor.nextToken(); processor.back(next)
Peek(p) ==
  LET n == nextToken(p)
  IN [next |-> n.token, processor |-> back(n.processor, n.token)]

getTokenTypeCallFirst(tok, p) ==
  IF ~endOfFile(p)
  THEN IF Peek(p).next[1] \in {"brackets", "("}
       THEN [type |-> "call", processor |-> Peek(p).processor]
       ELSE IF tok[1] = "word" /\ tok[2][1] = "."
       THEN [type |-> "class", processor |-> Peek(p).processor]
       ELSE IF tok[1] = "word" /\ tok[2][1] = "#"
       THEN [type |-> "hash", processor |-> Peek(p).processor]
       ELSE [type |-> tok[1], processor |-> Peek(p).processor]
  ELSE IF tok[1] = "word" /\ tok[2][1] = "."
  THEN [type |-> "class", processor |-> p]
  ELSE IF tok[1] = "word" /\ tok[2][1] = "#"
  THEN [type |-> "hash", processor |-> p]
  ELSE [type |-> tok[1], processor |-> p]

getTokenTypeSwapped(tok, p) ==
  IF tok[1] = "word" /\ tok[2][1] = "#"
  THEN [type |-> "class", processor |-> p]
  ELSE IF tok[1] = "word" /\ tok[2][1] = "."
  THEN [type |-> "hash", processor |-> p]
  ELSE IF ~endOfFile(p)
  THEN [type |-> IF Peek(p).next[1] \in {"brackets", "("} THEN "call" ELSE tok[1],
        processor |-> Peek(p).processor]
  ELSE [type |-> tok[1], processor |-> p]

\* getTokenType([type, value], processor): the type and the stream after
getTokenType(tok, p) ==
  IF tok[1] = "word" /\ tok[2][1] = "."
  THEN [type |-> "class", processor |-> p]
  ELSE IF tok[1] = "word" /\ tok[2][1] = "#"
  THEN [type |-> "hash", processor |-> p]
  ELSE IF ~endOfFile(p)
  THEN [type |-> IF Peek(p).next[1] \in {"brackets", "("} THEN "call" ELSE tok[1],
        processor |-> Peek(p).processor]
  ELSE [type |-> tok[1], processor |-> p]

\* ---------------------------------------------- texts given to terminalHighlight

Alphabet == {"a", ".", "#", "(", ")", "\"", "\r", "\n", BOM_FEFF, BOM_FFFE}

DotFoo == <<".", "f", "o", "o">>
HashMain == <<"#", "m", "a", "i", "n">>

Samples ==
  { DotFoo,
    DotFoo \o <<"(">>,
    DotFoo \o <<"(", "a", ")">>,
    DotFoo \o <<" ", "(">>,
    <<"f", "o", "o", "(", "a", ")">>,
    HashMain \o <<"{", "c", ":", "r", "}">>,
    HashMain \o <<"(">>,
    <<"/", "*", "a", "\r", "\n", "b", "*", "/">>,
    <<"/", "*", "a", "*", "/", "(", "a", ")">>,
    <<"@", "m", " ", "a", "[", "b", "]", ";">>,
    <<"'", "a", "\n", "b", "'", "(">> }

Texts == Samples \cup UNION {[1..n -> Alphabet] : n \in 0..MaxLen}

\* --------------------------------------------------- terminalHighlight, stepwise

\* terminalHighlight(css) up to the loop:
\* let processor = tokenizer(new Input(css), { ignoreErrors: true }); let result = ""
HighlightStart ==
  /\ pc = "idle"
  /\ Constructed(css, [from |-> Undefined, prev |-> <<>>])
  /\ processor' = tokenizer(NewInput(css, [from |-> Undefined, prev |-> <<>>],
                                     sequence).input)
  /\ result' = <<>>
  /\ delivered' = <<>>
  /\ pc' = "loop"
  /\ UNCHANGED <<ret, atClassify, token, type>>

\* one iteration of while (!processor.endOfFile())
HighlightStep ==
  /\ pc = "loop"
  /\ ~endOfFile(processor)
  /\ LET n == nextToken(processor)
         g == getTokenType(n.token, n.processor)
     IN /\ token' = <<n.token>>
        /\ atClassify' = n.processor
        /\ type' = g.type
        /\ processor' = g.processor
        /\ delivered' = Append(delivered, n.token)
        /\ result' = result \o Rendered(HIGHLIGHT_THEME(g.type), n.token[2])
  /\ UNCHANGED <<sequence, input, anon, css, ret, pc>>

\* return result
HighlightReturn ==
  /\ pc = "loop"
  /\ endOfFile(processor)
  /\ pc' = "done"
  /\ ret' = [kind |-> "highlight", value |-> result]
  /\ UNCHANGED <<sequence, input, anon, css, processor, atClassify, token, type,
                 delivered, result>>

NextHighlight == HighlightStart \/ HighlightStep \/ HighlightReturn

\* a fresh process about to call terminalHighlight on one of the texts
InitHighlight == \E text \in Texts : Start(text)

SpecHighlight == InitHighlight /\ [][NextHighlight]_vars

\* stripping the colour control sequences from an output
StripColors(out) ==
  LET keep(c) == c \notin ControlSequences IN SelectSeq(out, keep)

\* ------------------------------------------------------------ properties

\* C1: the k-th Input constructed without a file has the id "<input css k>":
\* the ids run 1, 2, ... in construction order and the counter equals their
\* number, so it was never reset or decremented.
C1_IdsInConstructionOrder ==
  /\ Len(anon) = sequence
  /\ \A k \in 1..Len(anon) : anon[k] = <<"<input css " \o ToString(k) \o ">">>

C1_Witness ==
  /\ ret.kind = "Input"
  /\ Len(anon) = 3
  /\ anon[3] = <<"<input css 3>">>
  /\ Truthy(input[1].file)

\* C2: after every successful construction exactly one of file and id is
\* set, and `from` is the file when there is one and the id otherwise, never
\* empty.
C2_ExactlyOneOfFileAndId ==
  input # <<>> =>
    LET i == input[1]
    IN /\ Truthy(i.file) # Truthy(i.id)
       /\ Truthy(i.file) => from(i) = i.file
       /\ ~Truthy(i.file) => from(i) = i.id
       /\ Truthy(from(i))

C2_Witness ==
  /\ input # <<>>
  /\ input[1].map # <<>>
  /\ input[1].file = <<"/", "r", "/", "o">>
  /\ ~Truthy(input[1].id)
  /\ sequence > 0

\* C3: the diagnostic error() returns always carries the line and column it
\* was given, with the Input's text and its file when it has one, in its
\* secondary location; its primary location is the original one when the map
\* has a source for the position, and the given one against the Input's own
\* text and file otherwise.
C3_ErrorKeepsGeneratedLocation ==
  ret.kind = "error" =>
    LET i == input[1]
        d == ret.value
        mapped == IF i.map = <<>> THEN FALSE
                  ELSE Truthy(OriginalPositionFor(i.map[1].consumer[1],
                                                  ret.line, ret.column).source)
    IN /\ d.input.line = ret.line
       /\ d.input.column = ret.column
       /\ d.input.source = i.css
       /\ ("file" \in DOMAIN d.input) = Truthy(i.file)
       /\ "file" \in DOMAIN d.input => d.input.file = i.file
       /\ IF mapped
          THEN LET c == i.map[1].consumer[1]
                   pos == OriginalPositionFor(c, ret.line, ret.column)
               IN /\ d.line = pos.line
                  /\ d.column = pos.column
                  /\ d.file = mapResolve(c, pos.source)
                  /\ d.source = SourceContentFor(c, pos.source)
          ELSE /\ d.line = ret.line
               /\ d.column = ret.column
               /\ d.source = i.css
               /\ d.file = i.file

C3_Witness ==
  /\ ret.kind = "error"
  /\ ret.line = 2 /\ ret.column = 5
  /\ ret.value.line = 10 /\ ret.value.column = 3
  /\ ret.value.file = <<"/", "w", "/">> \o Sass
  /\ ret.value.input.line = 2 /\ ret.value.input.column = 5

\* C7: origin() returns false without a query when no map is linked; with a
\* map it returns false exactly when the consumer has no original source for
\* the position, and otherwise the resolved file with the original line and
\* column, with source attached only if the map has the original text.
C7_OriginFalseOrPosition ==
  ret.kind = "origin" =>
    LET i == input[1]
    IN IF i.map = <<>>
       THEN ret.value = <<>> /\ ret.queries = 0
       ELSE LET c == i.map[1].consumer[1]
                pos == OriginalPositionFor(c, ret.line, ret.column)
            IN /\ (ret.value = <<>>) = ~Truthy(pos.source)
               /\ ret.value # <<>> =>
                    /\ ret.value[1].file = mapResolve(c, pos.source)
                    /\ ret.value[1].line = pos.line
                    /\ ret.value[1].column = pos.column
                    /\ "source" \in DOMAIN ret.value[1] =>
                         /\ Truthy(SourceContentFor(c, pos.source))
                         /\ ret.value[1].source = SourceContentFor(c, pos.source)

C7_Witness ==
  /\ ret.kind = "origin"
  /\ ret.value # <<>>
  /\ "source" \notin DOMAIN ret.value[1]
  /\ ret.value[1].line = 10 /\ ret.value[1].column = 3

\* C9: however constructions, failed constructions, origin() and error()
\* calls follow each other, no two Inputs have the same id and the ids
\* issued are exactly those of the counter values 1..sequence: none twice,
\* none lost.
C9_IdsUniqueNoneLost ==
  /\ \A j, k \in 1..Len(anon) : j # k => anon[j] # anon[k]
  /\ {anon[k] : k \in 1..Len(anon)} =
       {<<"<input css " \o ToString(n) \o ">">> : n \in 1..sequence}

C9_Witness ==
  /\ Len(anon) = 2
  /\ anon[1] # anon[2]
  /\ ret.kind = "throw"

\* C8: hasBOM is true exactly when the text given starts with one of the two
\* markers; the stored text is then the text without that one character, and
\* the text itself otherwise.
C8_OneMarkerStripped ==
  input # <<>> =>
    LET marked == Len(css) > 0 /\ css[1] \in {BOM_FEFF, BOM_FFFE}
    IN /\ input[1].hasBOM = marked
       /\ marked => input[1].css = SubSeq(css, 2, Len(css))
       /\ ~marked => input[1].css = css

C8_Witness ==
  /\ input # <<>>
  /\ input[1].hasBOM
  /\ Len(css) = 3
  /\ input[1].css = <<BOM_FEFF, "a">>

\* C4: when terminalHighlight returns, its output without the colour control
\* sequences is the text the token stream was given.
C4_StrippedOutputIsText ==
  pc = "done" => StripColors(ret.value) = input[1].css

\* the same for the texts in which no line feed follows a carriage return
StrippedOutputIsTextWithoutCRLF ==
  (pc = "done" /\ \A k \in 1..(Len(css) - 1) : ~(css[k] = "\r" /\ css[k + 1] = "\n"))
    => StripColors(ret.value) = input[1].css

\* the next token of the stream as getTokenType found it: <<>> at the end
Ahead == IF endOfFile(atClassify) THEN <<>> ELSE <<Drain(atClassify)[1]>>

CallAhead == Ahead # <<>> /\ Ahead[1][1] \in {"brackets", "("}

\* C5 as stated: the token ".foo" is class when neither "(" nor a bracket
\* group follows it, and in the text ".foo(" it is call.
C5_DotFooCallBeforeParenthesis ==
  (token # <<>> /\ token[1] = <<"word", DotFoo>>) =>
    /\ ~CallAhead => type = "class"
    /\ css = DotFoo \o <<"(">> => type = "call"

\* C5 amended: the token ".foo" is class whether or not "(" or a bracket
\* group follows it; in the text ".foo(" it is class.
C5_DotFooAlwaysClass ==
  (token # <<>> /\ token[1] = <<"word", DotFoo>>) => type = "class"

C5_Witness ==
  /\ css = DotFoo \o <<"(">>
  /\ token = <<<<"word", DotFoo>>>>
  /\ CallAhead
  /\ type = "class"

\* C6: getTokenType leaves the stream as it found it: the same answer to
\* endOfFile() and the same tokens still to come; so the tokens the loop has
\* taken followed by those still to come are the tokens of the text, each
\* once and in order.
C6_ClassifyLeavesStream ==
  token # <<>> =>
    /\ endOfFile(processor) = endOfFile(atClassify)
    /\ Drain(processor) = Drain(atClassify)
    /\ delivered \o Drain(processor) = Drain(tokenizer(input[1]))

C6_Witness ==
  /\ token # <<>>
  /\ processor.returned # <<>>
  /\ type = "space"
  /\ Len(delivered) = 2
  /\ Len(Drain(processor)) = 1

\* C10: a word starting with "." is class and one starting with "#" is hash
\* whatever follows; otherwise a token followed by a bracket group or "(" is
\* call whatever its own type; otherwise the token has its own type; and at
\* the end of the stream nothing is taken from it.
C10_Precedence ==
  token # <<>> =>
    LET t == token[1]
    IN /\ type = IF t[1] = "word" /\ t[2][1] = "." THEN "class"
                 ELSE IF t[1] = "word" /\ t[2][1] = "#" THEN "hash"
                 ELSE IF CallAhead THEN "call"
                 ELSE t[1]
       /\ endOfFile(atClassify) => processor = atClassify

C10_Witness ==
  /\ token # <<>>
  /\ token[1][1] = "string"
  /\ CallAhead
  /\ type = "call"

====
